---- MODULE Spec2Model ----
(***************************************************************************)
(* The <shacl-form> custom element (class ShaclForm) and the language tab  *)
(* handlers that call into it, as a state machine.                         *)
(*                                                                         *)
(* JavaScript strings that the code splits or joins are sequences of       *)
(* one-character strings, so that split(',') and join(',') are computed.   *)
(* IRIs are atomic strings.  An attribute is the empty sequence when the   *)
(* element does not carry it and a one-element sequence holding its value  *)
(* when it does (getAttribute returning null or a string).                 *)
(***************************************************************************)
EXTENDS Integers, Sequences, FiniteSets, TLC

\* ------------------------------------------------------------------ bounds
\* External render() calls made during one run.
MaxRenders == 1

\* ------------------------------------------------------------ value domains
EN == <<"e", "n">>
NL == <<"n", "l">>
DE == <<"d", "e">>
NoLang == << >>
Comma == ","
Star == <<"*">>

EmptyIri == ""
NoAttr == << >>
Attr(v) == <<v>>

RECURSIVE Split(_)
\* String.prototype.split(','): never the empty list, ''.split(',') is [''].
Split(s) ==
  IF \E i \in 1..Len(s) : s[i] = Comma
  THEN LET i == CHOOSE k \in 1..Len(s) : s[k] = Comma /\ \A j \in 1..(k - 1) : s[j] # Comma
       IN  <<SubSeq(s, 1, i - 1)>> \o Split(SubSeq(s, i + 1, Len(s)))
  ELSE <<s>>

RECURSIVE Join(_)
\* Array.prototype.join(','): [].join(',') is ''.
Join(list) ==
  IF list = << >> THEN << >>
  ELSE IF Len(list) = 1 THEN list[1]
  ELSE list[1] \o <<Comma>> \o Join(Tail(list))

Range(f) == {f[i] : i \in DOMAIN f}
Includes(list, x) == x \in Range(list)
Last(seq) == seq[Len(seq)]
\* JavaScript truthiness of a string of characters, and of an attribute (null or a
\* string) whose value is an IRI or a URL.
Truthy(s) == s # << >>
AttrTruthy(a) == a # NoAttr /\ a[1] # ""

Literal(v, l) == [kind |-> "Literal", value |-> v, language |-> l]
Quad(s, o) == [subject |-> s, predicate |-> "p", object |-> o]

Iris == {"A", "B"}
\* What the data-url may serve once parsed: document order matters (dataQuads[0]).
DataDocs ==
  { << >>,
    <<Quad("A", Literal("x", EN))>>,
    <<Quad("A", Literal("z", NoLang))>>,
    <<Quad("A", Literal("x", EN)), Quad("B", Literal("y", NL))>>,
    <<Quad("B", Literal("y", NL)), Quad("A", Literal("x", EN))>> }
\* What the shacl-url may serve once parsed: the subjects typed sh:NodeShape, in order.
ShapeDocs == { << >>, <<"S1">>, <<"S1", "S2">> }
\* Outcomes of fetch(url).then(response => response.text()) followed by parse.
Rejected == [kind |-> "rejected", quads |-> << >>]
EmptyText == [kind |-> "empty", quads |-> << >>]
Invalid == [kind |-> "invalid", quads |-> << >>]
Parsed(qs) == [kind |-> "text", quads |-> qs]
ShaclResponses == {Rejected, Invalid} \cup {Parsed(d) : d \in ShapeDocs}
DataResponses == {Rejected, EmptyText, Invalid} \cup {Parsed(d) : d \in DataDocs}

VARIABLES
  config,       \* the element's own attributes as they were at construction
  loaded,       \* the quads init() parsed from the data document, << >> before that
  failedSeq,    \* the validation pass the validator last rejected, 0 when none
  attrs,        \* the element's own attributes
  initPc,       \* where init() is suspended, or how it ended
  initError,    \* the reason init()'s promise was rejected with
  pending,      \* quads parsed by init() and not yet consumed
  validator,    \* #validator: << >> until constructed
  subject,      \* #subject
  store,        \* #store, the Dataset
  shaclDataset, \* #shaclDataset
  shapeUris,    \* shapeUris
  rootShaclIri, \* #rootShaclIri
  root,         \* #root has been created
  uiLanguagePriorities, \* #uiLanguagePriorities
  data,         \* #data
  cycles,       \* render() calls awaiting their validate() promise, oldest first
  started,      \* number of validation passes started so far
  renders,      \* number of external render() calls so far
  displayed,    \* what was last handed to #root.render: << >> or <<element>>
  renderError,  \* how the render() call that last settled ended
  obs,          \* the outcome of the last read or assignment made by a caller
  renameLog     \* the last subject assignments made since init() last ran

vars == <<config, loaded, failedSeq, attrs, initPc, initError, pending, validator,
          subject, store, shaclDataset, shapeUris, rootShaclIri, root, uiLanguagePriorities, data, cycles, started,
          renders, displayed, renderError, obs, renameLog>>

history == <<config, loaded, failedSeq>>

fields == <<validator, subject, store, shaclDataset, shapeUris, rootShaclIri, root,
            uiLanguagePriorities, data>>

NoError == "none"
NoObs == [op |-> "none", arg |-> << >>, ctx |-> << >>, result |-> << >>, error |-> NoError]
Obs(op, arg, ctx, result, error) ==
  [op |-> op, arg |-> arg, ctx |-> ctx, result |-> result, error |-> error]
Placeholder == [kind |-> "placeholder", term |-> EmptyIri]
Pointer(term) == [kind |-> "pointer", term |-> term]

\* Error messages and rejection reasons.
ShaclUrlRequired == "A shacl-url property is required. It should link to a SHACL turtle file"
ShapeUriNotFound == "Could not find the shape uri"
ActiveNotAvailable == "An active language was set that is not included in the available languages."
ShapesFetchFailed == "fetch(shaclUrl) rejected"
ShapesParseFailed == "parser.parse(shaclText) threw"
DataFetchFailed == "fetch(dataUrl) rejected"
DataParseFailed == "parser.parse(dataText) threw"
ValidatorUndefined == "TypeError: cannot read properties of undefined (reading 'validate')"
ValidatorFailed == "validator.validate rejected"
RootShapeMissing == "no root shape"
MethodMissing == "TypeError: form.removeLanguage is not a function"
SetterMissing == "TypeError: cannot set property which has only a getter"

AttrConfigs ==
  [ shaclUrl : {NoAttr, Attr(""), Attr("shapes.ttl")},
    shaclIri : {NoAttr, Attr("S2")},
    dataUrl : {NoAttr, Attr("data.ttl")},
    dataIri : {NoAttr, Attr("B")},
    uiLanguagePriorities : {NoAttr},
    contentLanguages : {NoAttr, Attr(Join(<<EN, DE>>))} ]

\* The constructor, on an element carrying one of `configs`: super(), then init() up
\* to its first await (or its throw, which rejects init()'s promise and lets the
\* constructor go on), then createRoot.
Constructed(configs) ==
  /\ attrs \in configs
  /\ config = attrs
  /\ loaded = << >>
  /\ failedSeq = 0
  /\ initPc = IF AttrTruthy(attrs.shaclUrl) THEN "fetchShacl" ELSE "rejected"
  /\ initError = IF AttrTruthy(attrs.shaclUrl) THEN NoError ELSE ShaclUrlRequired
  /\ pending = << >>
  /\ validator = << >>
  /\ subject = EmptyIri
  /\ store = {}
  /\ shaclDataset = << >>
  /\ shapeUris = << >>
  /\ rootShaclIri = EmptyIri
  /\ root = TRUE
  /\ uiLanguagePriorities = <<Star>>
  /\ data = Placeholder
  /\ cycles = << >>
  /\ started = 0
  /\ renders = 0
  /\ displayed = << >>
  /\ renderError = NoError
  /\ obs = NoObs
  /\ renameLog = << >>

Init == Constructed(AttrConfigs)

\* ------------------------------------------------------------------ validate
\* validate(): #validator.validate({ dataset: #store, terms: [this.subject] }), as the
\* pass it starts: the focus terms and the Dataset content the report will be about
\* (the store as the validator finds it when called).  `assigned` remembers the term
\* last assigned through the subject setter, if any, when the pass started, and
\* `after` the pass the validator had last rejected by then.
Validation(subj, st, by) ==
  [ seq |-> started + 1,
    terms |-> <<subj>>,
    dataset |-> st,
    by |-> by,
    after |-> failedSeq,
    assigned |-> IF renameLog = << >> THEN << >> ELSE <<renameLog[Len(renameLog)].to>> ]

\* The lists a scan of the store can collect its truthy language tags into: each tag
\* once, in the order the store iterates its quads.
LanguageLists(st) ==
  LET tags == {q.object.language : q \in {x \in st : Truthy(x.object.language)}}
      n == Cardinality(tags)
  IN  {l \in [1..n -> tags] : \A i, j \in 1..n : l[i] = l[j] => i = j}

\* getAttribute('ui-language-priorities')?.split(',') ?? ['*'], nothing pushed.
splitPriorities_NoWildcard(attr) ==
  IF attr # NoAttr THEN Split(attr[1]) ELSE <<Star>>

\* getAttribute('ui-language-priorities')?.split(',') ?? ['*'], then push('*').
splitPriorities(attr) ==
  Append(IF attr # NoAttr THEN Split(attr[1]) ELSE <<Star>>, Star)

\* init() taking content-languages as never configured.
ContentLanguagesConfigured_Never == FALSE

\* this.attributes.getNamedItem('content-languages'), as init() tests it.
ContentLanguagesConfigured == attrs.contentLanguages # NoAttr

\* init() ending at its render() call, before the data pointer is created.
InitTail_PlaceholderPointer(subj0) ==
  LET subj1 == IF AttrTruthy(attrs.dataIri) THEN attrs.dataIri[1] ELSE subj0
  IN  /\ subject' = subj1
      /\ uiLanguagePriorities' = splitPriorities(attrs.uiLanguagePriorities)
      /\ cycles' = Append(cycles, Validation(subj1, store, "init"))
      /\ started' = started + 1
      /\ UNCHANGED data
      /\ IF ~ContentLanguagesConfigured
         THEN \E l \in LanguageLists(store) :
                attrs' = [attrs EXCEPT !.contentLanguages = Attr(Join(l))]
         ELSE attrs' = attrs
      /\ UNCHANGED history
      /\ initPc' = "done"
      /\ pending' = << >>
      /\ obs' = NoObs
      /\ renameLog' = << >>
      /\ UNCHANGED <<initError, renders, displayed, renderError>>

\* init() from the data-iri test to its end, entered with #subject = subj0.
InitTail(subj0) ==
  LET subj1 == IF AttrTruthy(attrs.dataIri) THEN attrs.dataIri[1] ELSE subj0
  IN  /\ subject' = subj1
      /\ uiLanguagePriorities' = splitPriorities(attrs.uiLanguagePriorities)
      /\ cycles' = Append(cycles, Validation(subj1, store, "init"))
      /\ started' = started + 1
      /\ data' = Pointer(subj1)
      /\ IF ~ContentLanguagesConfigured
         THEN \E l \in LanguageLists(store) :
                attrs' = [attrs EXCEPT !.contentLanguages = Attr(Join(l))]
         ELSE attrs' = attrs
      /\ UNCHANGED history
      /\ initPc' = "done"
      /\ pending' = << >>
      /\ obs' = NoObs
      /\ renameLog' = << >>
      /\ UNCHANGED <<initError, renders, displayed, renderError>>

InitReject(reason) ==
  /\ initPc' = "rejected"
  /\ initError' = reason
  /\ pending' = << >>
  /\ obs' = NoObs
  /\ renameLog' = << >>
  /\ UNCHANGED <<history, attrs, fields, cycles, started, renders, displayed, renderError>>

\* init() catching a failed shapes fetch and going on without shapes.
InitShaclFetched_SwallowsFailure(resp) ==
  /\ initPc = "fetchShacl"
  /\ initPc' = "parsedShacl"
  /\ initError' = IF resp.kind = "rejected" THEN ShapesFetchFailed ELSE initError
  /\ pending' = resp.quads
  /\ obs' = NoObs
  /\ renameLog' = << >>
  /\ UNCHANGED <<history, attrs, fields, cycles, started, renders, displayed, renderError>>

\* fetch(shaclUrl) settles; on a body, parser.parse(shaclText) runs and init() awaits.
InitShaclFetched(resp) ==
  /\ initPc = "fetchShacl"
  /\ IF resp.kind = "rejected" THEN InitReject(ShapesFetchFailed)
     ELSE IF resp.kind = "invalid" THEN InitReject(ShapesParseFailed)
     ELSE /\ initPc' = "parsedShacl"
          /\ pending' = resp.quads
          /\ obs' = NoObs
          /\ renameLog' = << >>
          /\ UNCHANGED <<history, attrs, initError, fields, cycles, started, renders, displayed,
                         renderError>>

\* From the shapes dataset to the data fetch; without a data-url, to the end of init().
InitShapesLoaded ==
  /\ initPc = "parsedShacl"
  /\ LET uris == shapeUris \o pending
         single == IF Len(uris) = 1 THEN uris[1] ELSE rootShaclIri
     IN  /\ shaclDataset' = pending
         /\ validator' = <<pending>>
         /\ shapeUris' = uris
         /\ rootShaclIri' = IF AttrTruthy(attrs.shaclIri) THEN attrs.shaclIri[1] ELSE single
  /\ UNCHANGED <<store, root>>
  /\ IF AttrTruthy(attrs.dataUrl)
     THEN /\ initPc' = "fetchData"
          /\ pending' = << >>
          /\ obs' = NoObs
          /\ renameLog' = << >>
          /\ UNCHANGED <<history, attrs, initError, subject, uiLanguagePriorities, data, cycles,
                         started, renders, displayed, renderError>>
     ELSE InitTail(subject)

\* fetch(dataUrl) settles; an empty body skips the parse, any other is parsed and
\* init() awaits the quads.
InitDataFetched(resp) ==
  /\ initPc = "fetchData"
  /\ IF resp.kind = "rejected" THEN InitReject(DataFetchFailed)
     ELSE IF resp.kind = "invalid" THEN InitReject(DataParseFailed)
     ELSE IF resp.kind = "empty"
     THEN /\ InitTail(subject)
          /\ UNCHANGED <<validator, store, shaclDataset, shapeUris, rootShaclIri, root>>
     ELSE /\ initPc' = "parsedData"
          /\ pending' = resp.quads
          /\ loaded' = resp.quads
          /\ obs' = NoObs
          /\ renameLog' = << >>
          /\ UNCHANGED <<config, failedSeq, attrs, initError, fields, cycles, started,
                         renders, displayed, renderError>>

\* #store.addQuads(dataQuads), after which init() awaits once more.
InitAddQuads ==
  /\ initPc = "parsedData"
  /\ store' = store \cup Range(pending)
  /\ initPc' = "addedQuads"
  /\ obs' = NoObs
  /\ renameLog' = << >>
  /\ UNCHANGED <<history, attrs, initError, pending, validator, subject, shaclDataset, shapeUris,
                 rootShaclIri, root, uiLanguagePriorities, data, cycles, started, renders,
                 displayed, renderError>>

\* init() going on from addQuads without looking at the first data quad.
InitFinish_KeepsSubject ==
  /\ initPc = "addedQuads"
  /\ InitTail(subject)
  /\ UNCHANGED <<validator, store, shaclDataset, shapeUris, rootShaclIri, root>>

\* The subject of the first data quad, then the rest of init().
InitFinish ==
  /\ initPc = "addedQuads"
  /\ InitTail(IF pending # << >> THEN pending[1].subject ELSE subject)
  /\ UNCHANGED <<validator, store, shaclDataset, shapeUris, rootShaclIri, root>>

\* ------------------------------------------------------------------- render
\* render() reaching validate() through optional chaining: a pass starts with or
\* without a validator.
Render_BeforeValidator ==
  /\ renders < MaxRenders
  /\ renders' = renders + 1
  /\ cycles' = Append(cycles, Validation(subject, store, "caller"))
  /\ started' = started + 1
  /\ obs' = NoObs
  /\ UNCHANGED <<history, attrs, initPc, initError, pending, fields, displayed, renderError,
                 renameLog>>

\* render() called from outside the class: the language tabs, a widget, the page.
\* validate() runs before the first await; without a validator it throws and the
\* call's promise is rejected at once.
Render ==
  /\ renders < MaxRenders
  /\ renders' = renders + 1
  /\ IF validator = << >>
     THEN /\ renderError' = ValidatorUndefined
          /\ UNCHANGED <<cycles, started>>
     ELSE /\ cycles' = Append(cycles, Validation(subject, store, "caller"))
          /\ started' = started + 1
          /\ UNCHANGED renderError
  /\ obs' = NoObs
  /\ UNCHANGED <<history, attrs, initPc, initError, pending, fields, displayed, renameLog>>

Without(seq, i) == SubSeq(seq, 1, i - 1) \o SubSeq(seq, i + 1, Len(seq))

\* get contentLanguages: the attribute of the closest element carrying it, the form
\* itself first, then `ancestor`, the nearest ancestor's.
contentLanguages(ancestor) ==
  LET closest == IF attrs.contentLanguages # NoAttr THEN attrs.contentLanguages ELSE ancestor
  IN  IF closest = NoAttr THEN << >> ELSE Split(closest[1])

\* The validator's report: what it validated.
Report(cycle) == [dataset |-> cycle.dataset, terms |-> cycle.terms]

\* shaclTree(report, shaclDataset, options, rootShaclIri): a pure function of its
\* inputs, which cannot compile without a root shape.
shaclTree(report, shapes, rootIri) ==
  IF rootIri = EmptyIri
  THEN [error |-> RootShapeMissing, tree |-> << >>]
  ELSE [error |-> NoError, tree |-> <<[report |-> report, shapes |-> shapes, root |-> rootIri]>>]

\* What render() hands to #root.render once its report has arrived, and the
\* languages the language tabs then show, one tab for each of form.contentLanguages.
Element(cycle, tree) ==
  [ tree |-> tree,
    dataPointer |-> data,
    uiLanguagePriorities |-> uiLanguagePriorities,
    seq |-> cycle.seq,
    by |-> cycle.by,
    after |-> cycle.after,
    tabs |-> contentLanguages(NoAttr) ]

\* A validate() promise is fulfilled (in any order): render() compiles the tree and
\* replaces what #root shows.
ValidationResolves(i) ==
  /\ i \in 1..Len(cycles)
  /\ LET compiled == shaclTree(Report(cycles[i]), shaclDataset, rootShaclIri)
     IN  IF compiled.error # NoError
         THEN /\ renderError' = compiled.error
              /\ UNCHANGED displayed
         ELSE /\ renderError' = NoError
              /\ displayed' = <<Element(cycles[i], compiled.tree[1])>>
  /\ cycles' = Without(cycles, i)
  /\ obs' = NoObs
  /\ UNCHANGED <<history, attrs, initPc, initError, pending, fields, started, renders, renameLog>>

\* render() unmounting the form when its validate() promise is rejected.
ValidationRejects_ClearsForm(i) ==
  /\ i \in 1..Len(cycles)
  /\ renderError' = ValidatorFailed
  /\ failedSeq' = cycles[i].seq
  /\ displayed' = << >>
  /\ cycles' = Without(cycles, i)
  /\ obs' = NoObs
  /\ UNCHANGED <<config, loaded, attrs, initPc, initError, pending, fields, started,
                 renders, renameLog>>

\* A validate() promise is rejected: render() rejects with it and renders nothing.
ValidationRejects(i) ==
  /\ i \in 1..Len(cycles)
  /\ renderError' = ValidatorFailed
  /\ failedSeq' = cycles[i].seq
  /\ cycles' = Without(cycles, i)
  /\ obs' = NoObs
  /\ UNCHANGED <<config, loaded, attrs, initPc, initError, pending, fields, started, renders,
                 displayed, renameLog>>

\* ------------------------------------------------------------------ subject
\* swapSubject(store, oldSubject, newSubject): every statement of oldSubject becomes
\* a statement of newSubject; the others are kept.
swapSubject(st, old, new) ==
  {IF q.subject = old THEN [q EXCEPT !.subject = new] ELSE q : q \in st}

\* get subject
getSubject == subject

LastTwo(log) == IF Len(log) > 2 THEN SubSeq(log, Len(log) - 1, Len(log)) ELSE log

\* set subject (newValue): swaps the statements in the store.
SetSubject(newValue) ==
  /\ store' = swapSubject(store, getSubject, newValue)
  /\ renameLog' = LastTwo(Append(renameLog,
                     [from |-> getSubject, to |-> newValue, before |-> store, after |-> store']))
  /\ obs' = NoObs
  /\ UNCHANGED <<history, attrs, initPc, initError, pending, validator, subject, shaclDataset,
                 shapeUris, rootShaclIri, root, uiLanguagePriorities, data, cycles, started,
                 renders, displayed, renderError>>

\* ------------------------------------------------------------------ getters
\* get shapeUri falling back to the first shape when the requested one is not declared.
shapeUri_FirstOnMiss(given) ==
  IF ~AttrTruthy(given) \/ ~Includes(shapeUris, given[1])
  THEN [result |-> IF shapeUris = << >> THEN << >> ELSE <<shapeUris[1]>>, error |-> NoError]
  ELSE [result |-> <<given[1]>>, error |-> NoError]

\* get shapeUri, `given` being the shape-uri attribute.
shapeUri(given) ==
  IF ~AttrTruthy(given)
  THEN [result |-> IF shapeUris = << >> THEN << >> ELSE <<shapeUris[1]>>, error |-> NoError]
  ELSE IF Includes(shapeUris, given[1])
  THEN [result |-> <<given[1]>>, error |-> NoError]
  ELSE [result |-> << >>, error |-> ShapeUriNotFound]


\* get activeContentLanguages without its membership test.
activeContentLanguages_NoCheck(closest, ancestor) ==
  LET active == IF closest = NoAttr THEN << >> ELSE Split(closest[1])
  IN  IF Len(active) = 0
      THEN [result |-> contentLanguages(ancestor), error |-> NoError]
      ELSE [result |-> active, error |-> NoError]

\* get activeContentLanguages, `closest` being the active-content-languages attribute
\* of the closest element carrying it.
activeContentLanguages(closest, ancestor) ==
  LET active == IF closest = NoAttr THEN << >> ELSE Split(closest[1])
  IN  IF ~ \A i \in 1..Len(active) : Includes(contentLanguages(ancestor), active[i])
      THEN [result |-> << >>, error |-> ActiveNotAvailable]
      ELSE IF Len(active) = 0
      THEN [result |-> contentLanguages(ancestor), error |-> NoError]
      ELSE [result |-> active, error |-> NoError]

ShapeUriAttrs == {NoAttr, Attr(""), Attr("S1"), Attr("S2"), Attr("S3")}
AncestorContent == {NoAttr, Attr(EN)}
ActiveAttrs == {NoAttr, Attr(NoLang), Attr(EN), Attr(DE), Attr(Join(<<EN, NL>>))}
LanguageChoices == {<<EN>>, <<NL>>, <<DE>>}

Read(o) ==
  /\ obs' = o
  /\ UNCHANGED <<history, attrs, initPc, initError, pending, fields, cycles, started, renders,
                 displayed, renderError, renameLog>>

ReadShapeUri(given) ==
  Read(Obs("shapeUri", given, shapeUris, shapeUri(given).result, shapeUri(given).error))

ReadActiveContentLanguages(closest, ancestor) ==
  Read(Obs("activeContentLanguages", closest, contentLanguages(ancestor),
           activeContentLanguages(closest, ancestor).result,
           activeContentLanguages(closest, ancestor).error))

\* form.activeContentLanguages = value, as the language tabs do: the class defines
\* the accessor with a getter only, and the assignment is made in module code.
assignActiveContentLanguages(value) == [error |-> SetterMissing]

AssignActiveContentLanguages(value, ancestor) ==
  Read(Obs("activeContentLanguages=", value, contentLanguages(ancestor), << >>,
           assignActiveContentLanguages(value).error))

\* String.prototype.toLowerCase over the letters of the language codes.
Lower(c) ==
  CASE c = "E" -> "e" [] c = "N" -> "n" [] c = "L" -> "l" [] c = "D" -> "d" [] OTHER -> c

toLowerCase(str) == [i \in 1..Len(str) |-> Lower(str[i])]

\* [...new Set(list)]: the first occurrence of each entry, in order.
RECURSIVE Distinct(_)
Distinct(list) ==
  IF list = << >> THEN << >>
  ELSE LET front == Distinct(SubSeq(list, 1, Len(list) - 1))
       IN  IF Includes(front, Last(list)) THEN front ELSE Append(front, Last(list))

\* form.contentLanguages = value in the language tabs: the class defines the
\* accessor with a getter only, and the assignment is made in module code.
assignContentLanguages(value) == [error |-> SetterMissing]

\* form.removeLanguage(languageCode): the class has no such member, the call is a
\* call of undefined.
removeLanguage(languageCode) == [error |-> MethodMissing]

PickerValues == {<< >>, EN, <<"N", "L">>, DE}

\* The change handler of the language picker in the displayed tabs.  A code that is
\* not empty is first assigned to form.contentLanguages, which throws and ends the
\* handler; an empty code goes straight to form.render().
PickLanguage(value) ==
  LET languageCode == toLowerCase(value)
      merged == Distinct(Append(contentLanguages(NoAttr), languageCode))
  IN  /\ displayed # << >>
      /\ IF Truthy(languageCode)
         THEN /\ obs' = Obs("pickLanguage", languageCode, contentLanguages(NoAttr), merged,
                           assignContentLanguages(merged).error)
              /\ UNCHANGED <<cycles, started, renders>>
         ELSE /\ renders < MaxRenders
              /\ obs' = Obs("pickLanguage", languageCode, contentLanguages(NoAttr), << >>,
                           NoError)
              /\ renders' = renders + 1
              /\ cycles' = Append(cycles, Validation(subject, store, "caller"))
              /\ started' = started + 1
      /\ UNCHANGED <<history, attrs, initPc, initError, pending, fields, displayed,
                     renderError, renameLog>>

\* The click handler of a tab's remove button, shown on each tab when the displayed
\* tabs are more than one.
RemoveLanguage(languageCode) ==
  /\ displayed # << >>
  /\ Len(displayed[1].tabs) > 1
  /\ Includes(displayed[1].tabs, languageCode)
  /\ obs' = Obs("removeLanguage", languageCode, contentLanguages(NoAttr), << >>,
                removeLanguage(languageCode).error)
  /\ UNCHANGED <<history, attrs, initPc, initError, pending, fields, cycles, started, renders,
                 displayed, renderError, renameLog>>

\* The operations that change the form: init(), render() and its validation passes,
\* and the subject setter.
Next ==
  \/ \E resp \in ShaclResponses : InitShaclFetched(resp)
  \/ InitShapesLoaded
  \/ \E resp \in DataResponses : InitDataFetched(resp)
  \/ InitAddQuads
  \/ InitFinish
  \/ Render
  \/ \E i \in 1..Len(cycles) : ValidationResolves(i)
  \/ \E i \in 1..Len(cycles) : ValidationRejects(i)
  \/ \E newValue \in Iris : SetSubject(newValue)

Spec == Init /\ [][Next]_vars

\* Forms with a shapes document to load, over the variants of data-url, data-iri
\* and ui-language-priorities: absent, empty and set.
LoadConfigs ==
  [ shaclUrl : {Attr("shapes.ttl")},
    shaclIri : {NoAttr, Attr("S2")},
    dataUrl : {NoAttr, Attr(""), Attr("data.ttl")},
    dataIri : {NoAttr, Attr(""), Attr("B")},
    uiLanguagePriorities : {NoAttr, Attr(<< >>), Attr(Join(<<EN, NL>>))},
    contentLanguages : {NoAttr} ]

InitLoad == Constructed(LoadConfigs)

\* init(), render() and its validation passes.
NextLoad ==
  \/ \E resp \in ShaclResponses : InitShaclFetched(resp)
  \/ InitShapesLoaded
  \/ \E resp \in DataResponses : InitDataFetched(resp)
  \/ InitAddQuads
  \/ InitFinish
  \/ Render
  \/ \E i \in 1..Len(cycles) : ValidationResolves(i)
  \/ \E i \in 1..Len(cycles) : ValidationRejects(i)

SpecLoad == InitLoad /\ [][NextLoad]_vars

\* init(), render() and its validation passes, and the handlers of the language tabs
\* of the displayed form.
NextTabs ==
  \/ \E resp \in ShaclResponses : InitShaclFetched(resp)
  \/ InitShapesLoaded
  \/ \E resp \in DataResponses : InitDataFetched(resp)
  \/ InitAddQuads
  \/ InitFinish
  \/ Render
  \/ \E i \in 1..Len(cycles) : ValidationResolves(i)
  \/ \E i \in 1..Len(cycles) : ValidationRejects(i)
  \/ \E value \in PickerValues : PickLanguage(value)
  \/ \E languageCode \in {EN, NL, DE} : RemoveLanguage(languageCode)

SpecTabs == Init /\ [][NextTabs]_vars

\* init() and what callers read from and assign to the form while and after it runs.
\* The accessors read the attributes and shapeUris only, which init() alone writes.
NextCallers ==
  \/ \E resp \in ShaclResponses : InitShaclFetched(resp)
  \/ InitShapesLoaded
  \/ \E resp \in DataResponses : InitDataFetched(resp)
  \/ InitAddQuads
  \/ InitFinish
  \/ \E given \in ShapeUriAttrs : ReadShapeUri(given)
  \/ \E closest \in ActiveAttrs, ancestor \in AncestorContent :
        ReadActiveContentLanguages(closest, ancestor)
  \/ \E value \in LanguageChoices, ancestor \in AncestorContent :
        AssignActiveContentLanguages(value, ancestor)

SpecCallers == Init /\ [][NextCallers]_vars

\* ------------------------------------------------------------ properties
IsSubsetOf(list, available) == \A i \in 1..Len(list) : Includes(available, list[i])

\* C1: assigning activeContentLanguages a list holding a tag that is not among the
\* content languages raises the configuration error, and assigning it a list of
\* content languages raises nothing.
C1_ActiveLanguageAssignment ==
  obs.op = "activeContentLanguages=" =>
    IF IsSubsetOf(obs.arg, obs.ctx)
    THEN obs.error = NoError
    ELSE obs.error = ActiveNotAvailable

\* C2: setting the subject from A to B and then back to A leaves the store with the
\* quads it had before the first of the two assignments.
C2_RoundTripRename ==
  ( /\ Len(renameLog) = 2
    /\ renameLog[1].to # renameLog[1].from
    /\ renameLog[2].to = renameLog[1].from ) =>
    store = renameLog[1].before

\* C3: every validation pass has exactly one focus term; once the subject has been
\* set to B the subject reads B, and the passes started after that have B as their
\* focus term.
C3_SubjectSetThenValidated ==
  /\ \A i \in 1..Len(cycles) : Len(cycles[i].terms) = 1
  /\ renameLog # << >> => getSubject = Last(renameLog).to
  /\ \A i \in 1..Len(cycles) :
       cycles[i].assigned # << >> => cycles[i].terms = cycles[i].assigned

\* C4: at most one render() call is between its validate() call and its
\* #root.render at any time: a call made meanwhile waits for a following cycle.
C4_CyclesMutuallyExclusive == Len(cycles) <= 1

\* C5: a validation pass started earlier never replaces the tree shown by a pass
\* started later with a tree compiled from a report about other Dataset content.
C5_NoStaleOverwrite ==
  [][ ( /\ displayed # << >>
        /\ displayed' # << >>
        /\ displayed'[1].seq < displayed[1].seq ) =>
      displayed'[1].tree.report.dataset = displayed[1].tree.report.dataset ]_vars

\* C6: with the shapes loaded and no root shape IRI supplied, a single sh:NodeShape
\* is the root shape; with several or none init() does not complete, starts no
\* validation pass and nothing is rendered.
C6_RootShapeResolution ==
  (validator # << >> /\ config.shaclIri = NoAttr) =>
    IF Len(shapeUris) = 1
    THEN rootShaclIri = shapeUris[1]
    ELSE /\ initPc # "done"
         /\ \A i \in 1..Len(cycles) : cycles[i].by # "init"
         /\ displayed = << >>

\* C7: reading shapeUri with a requested shape-uri that is not declared raises
\* 'Could not find the shape uri'; with a declared one it returns that shape; with
\* none requested (no attribute, or an empty one) it returns the first declared shape.
C7_ShapeUriLookup ==
  obs.op = "shapeUri" =>
    LET requested == obs.arg # NoAttr /\ obs.arg[1] # ""
        declared == requested /\ \E i \in 1..Len(shapeUris) : shapeUris[i] = obs.arg[1]
    IN  /\ (requested /\ ~declared) => (obs.error = ShapeUriNotFound /\ obs.result = << >>)
        /\ declared => (obs.error = NoError /\ obs.result = obs.arg)
        /\ (~requested /\ shapeUris # << >>) =>
             (obs.error = NoError /\ obs.result = <<Head(shapeUris)>>)

\* A shape-uri that is not among two declared shapes was read and raised.
C7_Witness ==
  /\ obs.op = "shapeUri"
  /\ Len(shapeUris) = 2
  /\ obs.arg # NoAttr
  /\ obs.error = ShapeUriNotFound

\* C8: a failed fetch of the data document does not reject init().
C8_DataFetchFailureDegrades ==
  initError = DataFetchFailed =>
    /\ initPc # "rejected"
    /\ store = {}

\* C9: when the shacl-url is missing or its fetch fails, init() ends rejected, no
\* validation pass is ever started and nothing is ever rendered.
C9_ShapesFailureIsFatal ==
  initError \in {ShaclUrlRequired, ShapesFetchFailed} =>
    /\ initPc = "rejected"
    /\ started = 0
    /\ cycles = << >>
    /\ displayed = << >>

\* The shapes fetch failed and a later render() call was rejected.
C9_Witness ==
  /\ initError = ShapesFetchFailed
  /\ initPc = "rejected"
  /\ renders = 1
  /\ renderError = ValidatorUndefined

SubjectLanguages(st, subj) ==
  {q.object.language :
     q \in {x \in st : x.subject = subj /\ x.object.kind = "Literal"
                                        /\ x.object.language # NoLang}}

\* C10: when content-languages was not configured, contentLanguages after init() is
\* the set of language tags on the current subject's statements: no tag of another
\* subject, no empty entry, and empty without language-tagged literals.
C10_ContentLanguagesOfSubject ==
  (initPc = "done" /\ config.contentLanguages = NoAttr /\ renameLog = << >>) =>
    /\ Range(contentLanguages(NoAttr)) = SubjectLanguages(store, subject)
    /\ ~Includes(contentLanguages(NoAttr), NoLang)

\* C13: when the validator rejects a pass, that render() call is rejected with the
\* failure, what is displayed stays as it was, the pass is over and the validator
\* stays in place for the following render() calls.
C13_ValidatorFailurePerCycle ==
  [][ failedSeq' # failedSeq =>
        /\ displayed' = displayed
        /\ renderError' = ValidatorFailed
        /\ Len(cycles') = Len(cycles) - 1
        /\ \A i \in 1..Len(cycles') : cycles'[i].seq # failedSeq'
        /\ validator' = validator
        /\ validator' # << >> ]_vars

\* A pass started after the validator had rejected one has rendered its tree.
C13_Witness ==
  /\ displayed # << >>
  /\ displayed[1].after > 0
  /\ displayed[1].seq > failedSeq
  /\ renderError = NoError

\* C17: a render() call from outside starts a validation pass only once the
\* validator has been constructed (before that the call is rejected and nothing
\* starts), and a tree is only ever compiled against the shapes dataset the
\* validator was constructed from.
C17_RenderNeverBeforeValidator ==
  [][ /\ started' # started => validator' # << >>
      /\ renders' # renders /\ validator = << >> =>
            /\ renderError' = ValidatorUndefined
            /\ started' = started /\ cycles' = cycles /\ displayed' = displayed
      /\ renders' # renders /\ validator # << >> =>
            /\ started' = started + 1
            /\ Last(cycles').by = "caller"
      /\ displayed' # displayed =>
            /\ validator # << >>
            /\ displayed'[1].tree.shapes = validator[1] ]_vars

\* render() was called while init() was still awaiting the shapes: the call was
\* rejected and no pass has started.
C17_Witness ==
  /\ initPc = "fetchShacl"
  /\ renders = 1
  /\ renderError = ValidatorUndefined
  /\ started = 0
  /\ cycles = << >>

\* C15: a content-languages attribute configured on the element is never written
\* by init(), and after init() contentLanguages is the configured list, whatever
\* language tags the loaded data carries.
C15_ConfiguredContentLanguagesKept ==
  config.contentLanguages # NoAttr =>
    /\ attrs.contentLanguages = config.contentLanguages
    /\ initPc = "done" => /\ contentLanguages(NoAttr) = Split(config.contentLanguages[1])
                          /\ contentLanguages(NoAttr) = <<EN, DE>>

\* init() has finished on a form configured with "en,de" whose store holds a
\* literal tagged "nl".
C15_Witness ==
  /\ initPc = "done"
  /\ config.contentLanguages = Attr(Join(<<EN, DE>>))
  /\ \E q \in store : q.object.language = NL
  /\ contentLanguages(NoAttr) = <<EN, DE>>

\* C16: whenever the form shows the element of the pass that init() started, the
\* render root exists, the validator is the one constructed from the loaded shapes,
\* every parsed data quad was in the store that was validated, and the data pointer
\* handed over is the pointer at the resolved subject, never the placeholder.
C16_InitialLoadOrdering ==
  (displayed # << >> /\ displayed[1].by = "init") =>
    /\ root
    /\ validator # << >>
    /\ displayed[1].tree.shapes = validator[1]
    /\ Range(loaded) \subseteq displayed[1].tree.report.dataset
    /\ displayed[1].tree.report.terms = <<subject>>
    /\ displayed[1].dataPointer = Pointer(subject)
    /\ displayed[1].dataPointer # Placeholder

\* The element of init()'s pass is displayed for a form whose data document held
\* quads and whose subject was resolved from them or from data-iri.
C16_Witness ==
  /\ displayed # << >>
  /\ displayed[1].by = "init"
  /\ loaded # << >>
  /\ displayed[1].dataPointer.term # EmptyIri

\* C18: reading activeContentLanguages when no element carries an
\* active-content-languages attribute returns contentLanguages and does not raise;
\* and whenever the read does not raise, every language it returns is one of
\* contentLanguages.
C18_ActiveDefaultsToContent ==
  obs.op = "activeContentLanguages" =>
    /\ obs.arg = NoAttr => (obs.error = NoError /\ obs.result = obs.ctx)
    /\ obs.error = NoError => IsSubsetOf(obs.result, obs.ctx)
    /\ obs.error # NoError =>
          /\ obs.error = ActiveNotAvailable
          /\ ~IsSubsetOf(Split(obs.arg[1]), obs.ctx)

\* activeContentLanguages was read on a form with content languages and without
\* any active-content-languages attribute.
C18_Witness ==
  /\ obs.op = "activeContentLanguages"
  /\ obs.arg = NoAttr
  /\ Len(obs.ctx) > 1
  /\ obs.result = obs.ctx
  /\ obs.error = NoError

\* What init() makes of the ui-language-priorities attribute: absent, empty, "en,nl".
ExpectedPriorities(attr) ==
  IF attr = NoAttr THEN <<Star, Star>>
  ELSE IF attr[1] = << >> THEN <<NoLang, Star>>
  ELSE <<EN, NL, Star>>

\* The priorities a non-empty attribute lists, none otherwise.
ConfiguredPriorities(attr) ==
  IF attr = NoAttr \/ attr[1] = << >> THEN << >> ELSE Split(attr[1])

\* C14 as stated: the list of the displayed form ends with '*' and the configured
\* priorities precede it in their order.
C14_AsStated ==
  displayed # << >> =>
    LET l == displayed[1].uiLanguagePriorities
        c == ConfiguredPriorities(config.uiLanguagePriorities)
    IN  /\ Last(l) = Star
        /\ Len(l) > Len(c)
        /\ SubSeq(l, Len(l) - Len(c), Len(l) - 1) = c

\* C14: every list handed to the form ends with '*'.  A render() that completes
\* after init() has read the attribute is handed the configured entries in their
\* order followed by '*' (['*', '*'] when the attribute is absent, ['', '*'] when it
\* is empty); one that completes earlier is handed ['*'] alone.
C14_PrioritiesEndWithWildcard ==
  [][ displayed' # displayed =>
        LET l == displayed'[1].uiLanguagePriorities
        IN  /\ Last(l) = Star
            /\ l = IF initPc = "done"
                   THEN ExpectedPriorities(config.uiLanguagePriorities)
                   ELSE <<Star>> ]_vars

\* The pass started by init() has rendered a form configured with "en,nl".
C14_Witness ==
  /\ displayed # << >>
  /\ displayed[1].by = "init"
  /\ config.uiLanguagePriorities = Attr(Join(<<EN, NL>>))
  /\ displayed[1].uiLanguagePriorities = <<EN, NL, Star>>

\* The focus terms of the pass init() started, wherever that pass is by now.
InitFocus ==
  {cycles[i].terms : i \in {j \in 1..Len(cycles) : cycles[j].by = "init"}}
    \cup (IF displayed # << >> /\ displayed[1].by = "init"
          THEN {displayed[1].tree.report.terms} ELSE {})

C11_PickLanguageAdds ==
  [][ (obs'.op = "pickLanguage" /\ obs' # obs) =>
        IF obs'.arg # << >>
        THEN /\ obs'.error = NoError
             /\ contentLanguages(NoAttr)' = Distinct(Append(contentLanguages(NoAttr), obs'.arg))
             /\ assignActiveContentLanguages(<<obs'.arg>>).error = NoError
             /\ store' = store
             /\ started' = started + 1
        ELSE /\ contentLanguages(NoAttr)' = contentLanguages(NoAttr)
             /\ attrs' = attrs ]_vars

\* The literals of language `l` under `subj` in the store `st`.
StatementsIn(st, subj, l) ==
  {q \in st : q.subject = subj /\ q.object.kind = "Literal" /\ q.object.language = l}

\* C12: removing a language deletes the statements under the subject whose literal
\* carries that language and takes the language out of contentLanguages and of the
\* active languages.
C12_RemoveLanguageDeletes ==
  [][ (obs'.op = "removeLanguage" /\ obs' # obs) =>
        /\ obs'.error = NoError
        /\ store' = store \ StatementsIn(store, subject, obs'.arg)
        /\ ~Includes(contentLanguages(NoAttr)', obs'.arg)
        /\ ~Includes(activeContentLanguages(NoAttr, NoAttr).result', obs'.arg) ]_vars
====
